---- MODULE Spec2Model ----
(***************************************************************************)
(* Model of the patient-monitoring loaders and cleaner:                    *)
(*   code/bigtable_load.py  - hour-bucketed wide-column loader and query   *)
(*   code/bigquery_load.py  - warehouse loader                             *)
(*   code/ingest.py         - cleaner                                      *)
(*   code/vertex_pipeline.py - pipeline definition script                  *)
(*                                                                         *)
(* Instants are epoch milliseconds.  A datetime is modelled as the pair    *)
(* (day number since the epoch, millisecond of the day), which is what the *)
(* calendar fields of a UTC datetime carry; "%Y-%m-%d" renders the day     *)
(* number and "%H" the hour of the day.                                    *)
(* Optional values (None / NaN / null) are <<>>, a present value v is <<v>>.*)
(* The store's 7-day max-age garbage collection runs inside the store and  *)
(* is not part of the loader; the model covers cells inside the retention  *)
(* window.                                                                 *)
(***************************************************************************)
EXTENDS Integers, Sequences, FiniteSets, TLC

VARIABLES
    file,          \* data/vitals_cleaned.jsonl: sequence of cleaned records
    prevFile,      \* <<>> or <<f>>: the cleaned file's content before it was rewritten
    tableExists,   \* wide-column table exists
    cells,         \* wide-column table content: set of cell versions
    grouped,       \* load_data: the row groups, in dict insertion order
    gi,            \* load_data: index of the next group of the loop
    batch,         \* load_data: the pending batch of rows
    ldpc,          \* load_data: "idle" | "loop"
    mutateCalls,   \* mutate_rows calls of the current/last load_data: seq of seq of row keys
    loadRet,       \* <<>> or <<[events, rows]>>: what the last load_data returned
    loaded,        \* history: set of records written by completed load_data calls since the last create_table
    btLoads,       \* history: number of load_data calls completed since the last create_table
    btLast,        \* history: the records of the last completed load_data call
    erased,        \* history: records loaded into a table that create_table later dropped
    lastQuery,     \* <<>> or <<[sensor, ref, reads, results]>>: the last query_patient_vitals call
    bqExists,      \* warehouse table exists
    bqRows,        \* warehouse table content: sequence of rows
    bqLoads,       \* history: warehouse load jobs completed since the last create_table
    bqLast,        \* history: the rows handed to the last warehouse load job
    bqErased,      \* history: rows that were in a warehouse table that create_table dropped
    keyIn,         \* make_row_key experiment: [sensor, t1, t2]
    keyOut,        \* <<>> or <<k1, k2>>
    raw,           \* data/vitals_raw.txt: sequence of raw records
    cleaned,       \* <<>> or <<rows>>: output of ingest_and_clean_data
    scripts        \* position of each script's __main__

vars == <<file, prevFile, tableExists, cells, grouped, gi, batch, ldpc, mutateCalls,
          loadRet, loaded, btLoads, btLast, erased, lastQuery,
          bqExists, bqRows, bqLoads, bqLast, bqErased,
          keyIn, keyOut, raw, cleaned, scripts>>

btVars == <<tableExists, cells, grouped, gi, batch, ldpc, mutateCalls,
            loadRet, loaded, btLoads, btLast, erased, lastQuery>>
bqVars == <<bqExists, bqRows, bqLoads, bqLast, bqErased>>
keyVars == <<keyIn, keyOut>>
cleanVars == <<raw, cleaned>>

----------------------------------------------------------------------------
(* Program constants *)

HourMs == 3600000
DayMs == 24 * HourMs
BatchSize == 50
CF_VITALS == "vitals"
CF_META == "meta"

(* Bounds of the model *)

MaxRecs == 2        \* records in the cleaned file (query specification)
BaseHour == 23      \* first hour (since the epoch) of the readings
MaxLoads == 2       \* load_data calls between two create_table calls

Sensors == {"A", "B"}
None == <<>>
Some(v) == <<v>>

----------------------------------------------------------------------------
(* Sequence helpers *)

Range(s) == {s[i] : i \in 1..Len(s)}

RECURSIVE SeqsUpTo(_, _)
SeqsUpTo(S, n) ==
    IF n = 0 THEN {<<>>}
    ELSE LET shorter == SeqsUpTo(S, n - 1)
         IN  shorter \cup {Append(s, x) : s \in {t \in shorter : Len(t) = n - 1}, x \in S}

----------------------------------------------------------------------------
(* Python values and their text encodings *)

PyFloat(n) == [ty |-> "float", v |-> n]
PyInt(n) == [ty |-> "int", v |-> n]
PyBool(b) == [ty |-> "bool", v |-> IF b THEN 1 ELSE 0]

ValueError == [ty |-> "ValueError", v |-> 0]

\* str(x).encode(): the literal of x as text, e.g. 70.0 -> b"70.0", 98 -> b"98", True -> b"True"
StrEncode(x) == [text |-> x.ty, lit |-> x.v]

\* float(b.decode()): accepts a float or an int literal, ValueError otherwise
ParseFloat(b) == IF b.text \in {"float", "int"} THEN Some(PyFloat(b.lit)) ELSE Some(ValueError)

\* int(b.decode()): accepts an int literal only
ParseInt(b) == IF b.text = "int" THEN Some(PyInt(b.lit)) ELSE Some(ValueError)

----------------------------------------------------------------------------
(* Datetimes *)

\* datetime.fromtimestamp(ms / 1000, tz=utc)
_ts_to_dt(ms) == [day |-> ms \div DayMs, msOfDay |-> ms % DayMs]

\* dt - timedelta(hours=1)
MinusHour(dt) ==
    IF dt.msOfDay >= HourMs
    THEN [day |-> dt.day, msOfDay |-> dt.msOfDay - HourMs]
    ELSE [day |-> dt.day - 1, msOfDay |-> dt.msOfDay + DayMs - HourMs]

\* the epoch timestamp a datetime denotes (the client's cell/filter timestamp, ms granularity)
DtToMs(dt) == dt.day * DayMs + dt.msOfDay

\* f'{sensor_id}#{dt:%Y-%m-%dT%H}'
FormatKey(sensor_id, dt) == <<sensor_id, "#", dt.day, dt.msOfDay \div HourMs>>

make_row_key_DateOnly(sensor_id, event_timestamp_ms) ==
    <<sensor_id, "#", _ts_to_dt(event_timestamp_ms).day, 0>>

make_row_key(sensor_id, event_timestamp_ms) ==
    FormatKey(sensor_id, _ts_to_dt(event_timestamp_ms))

\* the instant at which the hour named by a row key starts
KeyHourStart(k) == k[3] * DayMs + k[4] * HourMs

\* order of two row keys of one sensor as strings "E#YYYY-MM-DDTHH"
KeyLess(a, b) == a[3] < b[3] \/ (a[3] = b[3] /\ a[4] < b[4])

----------------------------------------------------------------------------
(* Cleaned records *)

Rec(s, t, v) ==
    [sensor_id |-> s, event_timestamp |-> t,
     heart_rate |-> PyFloat(60 + 10 * v),
     body_temperature |-> PyFloat(360 + v),
     spO2 |-> PyInt(95 + v),
     battery_level |-> PyInt(50 - v),
     heart_rate_imputed |-> PyBool(v % 2 = 0)]

HalfHourMs == HourMs \div 2
\* readings on and between the hour marks of two adjacent hours; reference instants on
\* and just after the hour marks that follow them
Hours == {BaseHour, BaseHour + 1}
FileTimes == {h * HourMs + d : h \in Hours, d \in {0, HalfHourMs}}
FileRecs == {Rec("A", t, 1) : t \in FileTimes}
              \cup {Rec("A", h * HourMs, 2) : h \in Hours}
              \cup {Rec("B", h * HourMs, 1) : h \in Hours}
Files == SeqsUpTo(FileRecs, MaxRecs)
Refs == {(h + 1) * HourMs + j : h \in Hours, j \in {0, 1}}

Columns == {<<CF_VITALS, "heart_rate">>, <<CF_VITALS, "body_temperature">>, <<CF_VITALS, "spO2">>,
            <<CF_META, "battery_level">>, <<CF_META, "heart_rate_imputed">>}
ColValue(rec, col) ==
    CASE col[2] = "heart_rate" -> rec.heart_rate
      [] col[2] = "body_temperature" -> rec.body_temperature
      [] col[2] = "spO2" -> rec.spO2
      [] col[2] = "battery_level" -> rec.battery_level
      [] col[2] = "heart_rate_imputed" -> rec.heart_rate_imputed

----------------------------------------------------------------------------
(* The wide-column store *)

Cell(rk, col, ts, val) == [row |-> rk, family |-> col[1], column |-> col[2], ts |-> ts, value |-> val]

\* a cell version is identified by (row, family, column, timestamp)
SameCell(a, b) ==
    a.row = b.row /\ a.family = b.family /\ a.column = b.column /\ a.ts = b.ts

\* table.mutate_rows(rows): every row's SetCell mutations are applied in order; a write
\* at an existing (row, family, column, timestamp) replaces that version, so of several
\* writes to one cell version the last one stays
MutateRows(cs, rows) ==
    LET mut(p) == rows[p[1]].muts[p[2]]
        placesOf(r) == {<<r, i>> : i \in 1..Len(rows[r].muts)}
        valid == UNION {placesOf(r) : r \in 1..Len(rows)}
        later(p, q) == q[1] > p[1] \/ (q[1] = p[1] /\ q[2] > p[2])
        sameRow(r) == {q \in r..Len(rows) : rows[q].key = rows[r].key}
        final == {p \in valid :
                    \A q \in UNION {placesOf(r) : r \in sameRow(p[1])} :
                        later(p, q) => ~SameCell(mut(p), mut(q))}
        written == {mut(p) : p \in final}
    IN  {c \in cs : \A w \in written : ~SameCell(c, w)} \cup written

\* the versions of one column of one row, newest first, as the store returns them
RECURSIVE NewestFirst(_)
NewestFirst(cs) ==
    IF cs = {} THEN <<>>
    ELSE LET top == CHOOSE c \in cs : \A d \in cs : d.ts <= c.ts
         IN  <<top>> \o NewestFirst(cs \ {top})

InTimestampRange_OpenClosed(ts, start, end) == start < ts /\ ts <= end

\* TimestampRange(start, end): start inclusive, end exclusive
InTimestampRange(ts, start, end) == start <= ts /\ ts < end

\* table.read_row(rk, filter_=TimestampRangeFilter(TimestampRange(start, end)))
ReadRow(cs, rk, start, end) == {c \in cs : c.row = rk /\ InTimestampRange(c.ts, start, end)}

----------------------------------------------------------------------------
(* create_table *)

CreateTable_NoDelete ==
    /\ ldpc = "idle"
    /\ tableExists' = TRUE
    /\ cells' = cells
    /\ erased' = erased \cup loaded
    /\ loaded' = {}
    /\ btLoads' = 0
    /\ lastQuery' = None
    /\ UNCHANGED <<file, prevFile, grouped, gi, batch, ldpc, mutateCalls, loadRet, btLast>>
    /\ UNCHANGED <<bqVars, keyVars, cleanVars, scripts>>

\* if table.exists(): table.delete();  table.create(column_families=...)
CreateTable ==
    /\ ldpc = "idle"
    /\ tableExists' = TRUE
    /\ cells' = {}
    /\ erased' = erased \cup loaded
    /\ loaded' = {}
    /\ btLoads' = 0
    /\ lastQuery' = None
    /\ UNCHANGED <<file, prevFile, grouped, gi, batch, ldpc, mutateCalls, loadRet, btLast>>
    /\ UNCHANGED <<bqVars, keyVars, cleanVars, scripts>>

----------------------------------------------------------------------------
(* load_data *)

\* grouped = defaultdict(list); for rec in records: grouped[key].append(rec)
\* kept as the sequence of (key, events) items in dict insertion order: the keys in the
\* order of their first record, each with its records in file order
GroupByKey(records) ==
    LET keyOf(i) == make_row_key(records[i].sensor_id, records[i].event_timestamp)
        first == {i \in 1..Len(records) : \A j \in 1..(i - 1) : keyOf(j) # keyOf(i)}
        nth(n) == CHOOSE i \in first : Cardinality({j \in first : j <= i}) = n
        eventsOf(k) ==
            LET at == {i \in 1..Len(records) : keyOf(i) = k}
                pos(n) == CHOOSE i \in at : Cardinality({j \in at : j <= i}) = n
            IN  [n \in 1..Cardinality(at) |-> records[pos(n)]]
    IN  [n \in 1..Cardinality(first) |-> [key |-> keyOf(nth(n)), events |-> eventsOf(keyOf(nth(n)))]]

\* the five set_cell calls of one event, each stamped with the event's own instant
EventMutations(row_key, evt) ==
    LET ts == DtToMs(_ts_to_dt(evt.event_timestamp))
    IN  << Cell(row_key, <<CF_VITALS, "heart_rate">>, ts, StrEncode(evt.heart_rate)),
           Cell(row_key, <<CF_VITALS, "body_temperature">>, ts, StrEncode(evt.body_temperature)),
           Cell(row_key, <<CF_VITALS, "spO2">>, ts, StrEncode(evt.spO2)),
           Cell(row_key, <<CF_META, "battery_level">>, ts, StrEncode(evt.battery_level)),
           Cell(row_key, <<CF_META, "heart_rate_imputed">>, ts, StrEncode(evt.heart_rate_imputed)) >>

RECURSIVE RowMutations(_, _)
RowMutations(row_key, events) ==
    IF events = <<>> THEN <<>>
    ELSE EventMutations(row_key, Head(events)) \o RowMutations(row_key, Tail(events))

\* row = table.direct_row(row_key) with every event's cells set
DirectRow(g) == [key |-> g.key, muts |-> RowMutations(g.key, g.events)]

RowKeys(rows) == [i \in 1..Len(rows) |-> rows[i].key]

\* records = [json.loads(line) ...]; grouping; batch = []
LoadBegin ==
    /\ ldpc = "idle"
    /\ tableExists
    /\ btLoads < MaxLoads
    /\ grouped' = GroupByKey(file)
    /\ gi' = 1
    /\ batch' = <<>>
    /\ mutateCalls' = <<>>
    /\ loadRet' = None
    /\ lastQuery' = None
    /\ ldpc' = "loop"
    /\ UNCHANGED <<file, prevFile, tableExists, cells, loaded, btLoads, btLast, erased>>
    /\ UNCHANGED <<bqVars, keyVars, cleanVars, scripts>>

LoadRow_FlushAbove ==
    /\ ldpc = "loop"
    /\ gi <= Len(grouped)
    /\ LET pending == Append(batch, DirectRow(grouped[gi]))
       IN  IF Len(pending) > BatchSize
           THEN /\ cells' = MutateRows(cells, pending)
                /\ mutateCalls' = Append(mutateCalls, RowKeys(pending))
                /\ batch' = <<>>
           ELSE /\ batch' = pending
                /\ UNCHANGED <<cells, mutateCalls>>
    /\ gi' = gi + 1
    /\ UNCHANGED <<file, prevFile, tableExists, grouped, ldpc, loadRet, loaded, btLoads,
                   btLast, erased, lastQuery>>
    /\ UNCHANGED <<bqVars, keyVars, cleanVars, scripts>>

\* one iteration of "for row_key, events in grouped.items()"
LoadRow ==
    /\ ldpc = "loop"
    /\ gi <= Len(grouped)
    /\ LET pending == Append(batch, DirectRow(grouped[gi]))
       IN  IF Len(pending) >= BatchSize
           THEN /\ cells' = MutateRows(cells, pending)
                /\ mutateCalls' = Append(mutateCalls, RowKeys(pending))
                /\ batch' = <<>>
           ELSE /\ batch' = pending
                /\ UNCHANGED <<cells, mutateCalls>>
    /\ gi' = gi + 1
    /\ UNCHANGED <<file, prevFile, tableExists, grouped, ldpc, loadRet, loaded, btLoads,
                   btLast, erased, lastQuery>>
    /\ UNCHANGED <<bqVars, keyVars, cleanVars, scripts>>

LoadEnd_NoFinalFlush ==
    /\ ldpc = "loop"
    /\ gi > Len(grouped)
    /\ UNCHANGED <<cells, mutateCalls>>
    /\ batch' = <<>>
    /\ loadRet' = Some([events |-> Len(file), rows |-> Len(grouped)])
    /\ loaded' = loaded \cup Range(file)
    /\ btLoads' = btLoads + 1
    /\ btLast' = file
    /\ ldpc' = "idle"
    /\ UNCHANGED <<file, prevFile, tableExists, grouped, gi, erased, lastQuery>>
    /\ UNCHANGED <<bqVars, keyVars, cleanVars, scripts>>

\* after the loop: "if batch: table.mutate_rows(batch)"; return len(records), len(grouped)
LoadEnd ==
    /\ ldpc = "loop"
    /\ gi > Len(grouped)
    /\ IF batch # <<>>
       THEN /\ cells' = MutateRows(cells, batch)
            /\ mutateCalls' = Append(mutateCalls, RowKeys(batch))
       ELSE UNCHANGED <<cells, mutateCalls>>
    /\ batch' = <<>>
    /\ loadRet' = Some([events |-> Len(file), rows |-> Len(grouped)])
    /\ loaded' = loaded \cup Range(file)
    /\ btLoads' = btLoads + 1
    /\ btLast' = file
    /\ ldpc' = "idle"
    /\ UNCHANGED <<file, prevFile, tableExists, grouped, gi, erased, lastQuery>>
    /\ UNCHANGED <<bqVars, keyVars, cleanVars, scripts>>

----------------------------------------------------------------------------
(* query_patient_vitals *)

SortedBuckets_RefOnly(a, b) == <<b>>

\* sorted({start_key, ref_key}): the distinct keys in string order
SortedBuckets(a, b) ==
    IF a = b THEN <<a>> ELSE IF KeyLess(a, b) THEN <<a, b>> ELSE <<b, a>>

ColumnCells(rowCells, col) ==
    NewestFirst({c \in rowCells : c.family = col[1] /\ c.column = col[2]})

RowResults_Reversed(rowCells) ==
    LET hr_cells == ColumnCells(rowCells, <<CF_VITALS, "heart_rate">>)
        bt_cells == ColumnCells(rowCells, <<CF_VITALS, "body_temperature">>)
        spo2_cells == ColumnCells(rowCells, <<CF_VITALS, "spO2">>)
    IN  [i \in 1..Len(hr_cells) |->
            [timestamp |-> _ts_to_dt(hr_cells[i].ts),
             heart_rate |-> ParseFloat(hr_cells[i].value),
             body_temperature |->
                 IF i <= Len(bt_cells)
                 THEN ParseFloat(bt_cells[Len(bt_cells) - i + 1].value) ELSE None,
             spO2 |->
                 IF i <= Len(spo2_cells) THEN ParseInt(spo2_cells[i].value) ELSE None]]

\* the results of one returned row: one per heart_rate version, the other two
\* attributes taken at the same position of their own version lists
RowResults(rowCells) ==
    LET hr_cells == ColumnCells(rowCells, <<CF_VITALS, "heart_rate">>)
        bt_cells == ColumnCells(rowCells, <<CF_VITALS, "body_temperature">>)
        spo2_cells == ColumnCells(rowCells, <<CF_VITALS, "spO2">>)
    IN  [i \in 1..Len(hr_cells) |->
            [timestamp |-> _ts_to_dt(hr_cells[i].ts),
             heart_rate |-> ParseFloat(hr_cells[i].value),
             body_temperature |->
                 IF i <= Len(bt_cells) THEN ParseFloat(bt_cells[i].value) ELSE None,
             spO2 |->
                 IF i <= Len(spo2_cells) THEN ParseInt(spo2_cells[i].value) ELSE None]]

\* order of two isoformat() strings of UTC datetimes
IsoLess(a, b) == a.day < b.day \/ (a.day = b.day /\ a.msOfDay < b.msOfDay)

\* list.sort(key=timestamp): stable insertion of r into an ascending list
RECURSIVE InsertByTimestamp(_, _)
InsertByTimestamp(sorted, r) ==
    IF sorted = <<>> THEN <<r>>
    ELSE IF IsoLess(r.timestamp, sorted[Len(sorted)].timestamp)
         THEN Append(InsertByTimestamp(SubSeq(sorted, 1, Len(sorted) - 1), r), sorted[Len(sorted)])
         ELSE Append(sorted, r)

RECURSIVE SortByTimestamp(_)
SortByTimestamp(rs) ==
    IF rs = <<>> THEN <<>>
    ELSE InsertByTimestamp(SortByTimestamp(SubSeq(rs, 1, Len(rs) - 1)), rs[Len(rs)])

RECURSIVE BucketResults(_, _, _, _)
BucketResults(cs, buckets, start, end) ==
    IF buckets = <<>> THEN <<>>
    ELSE RowResults(ReadRow(cs, Head(buckets), start, end))
             \o BucketResults(cs, Tail(buckets), start, end)

QueryPatientVitals(sensor_id, reference_time_ms) ==
    /\ ldpc = "idle"
    /\ tableExists
    /\ LET ref_dt == _ts_to_dt(reference_time_ms)
           start_dt == MinusHour(ref_dt)
           buckets == SortedBuckets(FormatKey(sensor_id, start_dt), FormatKey(sensor_id, ref_dt))
           results == BucketResults(cells, buckets, DtToMs(start_dt), DtToMs(ref_dt))
       IN  lastQuery' = Some([sensor |-> sensor_id, ref |-> reference_time_ms,
                              reads |-> buckets, results |-> SortByTimestamp(results)])
    /\ UNCHANGED <<file, prevFile, tableExists, cells, grouped, gi, batch, ldpc, mutateCalls,
                   loadRet, loaded, btLoads, btLast, erased>>
    /\ UNCHANGED <<bqVars, keyVars, cleanVars, scripts>>

Query == \E sensor_id \in Sensors, ref \in Refs : QueryPatientVitals(sensor_id, ref)

----------------------------------------------------------------------------
(* Specification of the wide-column loader and its query *)

IdleRest ==
    /\ bqExists = FALSE /\ bqRows = <<>> /\ bqLoads = 0 /\ bqLast = <<>> /\ bqErased = {}
    /\ keyIn = <<>> /\ keyOut = <<>>
    /\ raw = <<>> /\ cleaned = <<>>
    /\ scripts = <<>>

BtInit ==
    /\ prevFile = None
    /\ tableExists = FALSE
    /\ cells = {}
    /\ grouped = <<>>
    /\ gi = 1
    /\ batch = <<>>
    /\ ldpc = "idle"
    /\ mutateCalls = <<>>
    /\ loadRet = None
    /\ loaded = {}
    /\ btLoads = 0
    /\ btLast = <<>>
    /\ erased = {}
    /\ lastQuery = None

Init ==
    /\ file \in Files
    /\ BtInit
    /\ IdleRest

Next ==
    \/ CreateTable
    \/ LoadBegin
    \/ LoadRow
    \/ LoadEnd
    \/ Query

Spec == Init /\ [][Next]_vars

----------------------------------------------------------------------------
(* Specification of make_row_key on its own: two instants of one sensor *)

KeyTimes == {h * HourMs + d : h \in BaseHour .. (BaseHour + 2),
                              d \in {0, 1, HalfHourMs, HourMs - 1}}

KeyInit ==
    /\ keyIn \in [sensor : Sensors, t1 : KeyTimes, t2 : KeyTimes]
    /\ keyOut = <<>>
    /\ file = <<>>
    /\ BtInit
    /\ bqExists = FALSE /\ bqRows = <<>> /\ bqLoads = 0 /\ bqLast = <<>> /\ bqErased = {}
    /\ raw = <<>> /\ cleaned = <<>>
    /\ scripts = <<>>

MakeKeys ==
    /\ keyOut = <<>>
    /\ keyOut' = <<make_row_key(keyIn.sensor, keyIn.t1), make_row_key(keyIn.sensor, keyIn.t2)>>
    /\ UNCHANGED <<keyIn, file, prevFile, btVars, bqVars, cleanVars, scripts>>

KeyNext == MakeKeys

SpecKey == KeyInit /\ [][KeyNext]_vars

----------------------------------------------------------------------------
(* The warehouse loader *)

\* _ms_to_iso: the ISO-8601 rendering of the UTC datetime of an epoch-ms instant
_ms_to_iso(ms) == [date |-> ms \div DayMs, time |-> ms % DayMs, tz |-> "+00:00"]

\* _read_jsonl: every record with its timestamp converted for the warehouse
_read_jsonl(f) == [i \in 1..Len(f) |-> [f[i] EXCEPT !.event_timestamp = _ms_to_iso(@)]]

\* client.delete_table(table_ref, not_found_ok=True); client.create_table(table)
BqCreateTable ==
    /\ bqExists' = TRUE
    /\ bqRows' = <<>>
    /\ bqErased' = bqErased \cup Range(bqRows)
    /\ bqLoads' = 0
    /\ UNCHANGED <<bqLast, file, prevFile, btVars, keyVars, cleanVars, scripts>>

\* rows = _read_jsonl(data_file); load job with WRITE_TRUNCATE; job.result()
BqLoadData ==
    /\ bqExists
    /\ bqLoads < MaxLoads
    /\ bqRows' = _read_jsonl(file)
    /\ bqLoads' = bqLoads + 1
    /\ bqLast' = file
    /\ UNCHANGED <<bqExists, bqErased>>
    /\ UNCHANGED <<file, prevFile, btVars, keyVars, cleanVars, scripts>>

----------------------------------------------------------------------------
(* Specification of re-running the loaders after the cleaned file was rewritten *)

MaxRerunRecs == 2   \* records in a cleaned file (re-run specification)

RerunRecs == {Rec("A", BaseHour * HourMs, 1), Rec("B", BaseHour * HourMs, 2)}
RerunFiles == SeqsUpTo(RerunRecs, MaxRerunRecs)

\* the cleaner writes a new data/vitals_cleaned.jsonl between two loader runs
NewInput ==
    /\ ldpc = "idle"
    /\ prevFile = None
    /\ prevFile' = Some(file)
    /\ file' \in RerunFiles
    /\ UNCHANGED <<btVars, bqVars, keyVars, cleanVars, scripts>>

RerunInit ==
    /\ file \in RerunFiles
    /\ BtInit
    /\ IdleRest

RerunNext ==
    \/ CreateTable
    \/ LoadBegin
    \/ LoadRow
    \/ LoadEnd
    \/ BqCreateTable
    \/ BqLoadData
    \/ NewInput

SpecRerun == RerunInit /\ [][RerunNext]_vars

----------------------------------------------------------------------------
(* Specification of load_data on files with many distinct row keys *)

MaxBulkKeys == 101  \* distinct row keys of a bulk file
MaxBulkDup == 1     \* further readings that fall into the row of an earlier reading

\* the i-th reading of a bulk file: sensors alternate, the hour advances every second reading
BulkRec(i) ==
    Rec(IF i % 2 = 1 THEN "A" ELSE "B", (BaseHour + (i \div 2)) * HourMs, 1 + (i % 2))

\* k readings with k distinct row keys, then d readings half an hour after the first d
BulkFile(k, d) ==
    [i \in 1..(k + d) |->
        IF i <= k THEN BulkRec(i)
        ELSE [BulkRec(i - k) EXCEPT !.event_timestamp = @ + HalfHourMs]]

BulkInit ==
    /\ \E k \in 0..MaxBulkKeys :
          \E d \in 0..(IF k < MaxBulkDup THEN k ELSE MaxBulkDup) : file = BulkFile(k, d)
    /\ BtInit
    /\ IdleRest

\* one run of the loader script: the table is created, then loaded once
BulkNext ==
    \/ (~tableExists /\ CreateTable)
    \/ (btLoads = 0 /\ LoadBegin)
    \/ LoadRow
    \/ LoadEnd

SpecBulk == BulkInit /\ [][BulkNext]_vars

----------------------------------------------------------------------------
(* The cleaner: ingest_and_clean_data *)
(* A raw record carries sensor_id, event_timestamp (epoch ms, or missing/unparseable:  *)
(* NaT after parsing), heart_rate and body_temperature (tenths of a degree), each      *)
(* possibly missing.  spO2 and battery_level pass through unchanged and are left out.  *)
(* idx is the record's line number, the DataFrame index label every step preserves.    *)
(* A heart rate is the fraction num/den: an observed value v is v/1, a mean sum/count. *)

TempLower == 270
TempUpper == 426
Window == 3
MinPeriods == 1

NowMs == 5          \* pd.Timestamp.now('UTC') of the run, in epoch ms
MaxRaw == 4         \* records in the raw file

RawRec(s, ts, hr, bt) ==
    [sensor_id |-> s, event_timestamp |-> ts, heart_rate |-> hr, body_temperature |-> bt]

RawRecs ==
    { RawRec("A", Some(NowMs - 1), Some(60), Some(TempLower - 1)),
      RawRec("A", Some(NowMs - 1), None, Some(TempLower)),
      RawRec("A", Some(NowMs), Some(90), Some(TempUpper + 1)),
      RawRec("A", Some(NowMs), None, None),
      RawRec("B", Some(NowMs - 1), Some(60), Some(300)),
      RawRec("B", Some(NowMs - 1), None, Some(TempUpper)),
      RawRec("A", None, Some(60), Some(300)),
      RawRec("A", Some(NowMs + 1), Some(60), Some(300)) }

RawFiles == SeqsUpTo(RawRecs, MaxRaw) \ {<<>>}

\* the resolution of the parsed datetime column and the divisor the code looks up for it
TsUnits == {"ns", "us", "ms"}
UnitPerMs(unit) == CASE unit = "ns" -> 1000000 [] unit = "us" -> 1000 [] unit = "ms" -> 1
Divisor(unit) == CASE unit = "ns" -> 1000000 [] unit = "us" -> 1000 [] unit = "ms" -> 1

\* pd.to_datetime(ts, unit='ms', errors='coerce', utc=True) as int64 in the column's unit;
\* a missing or unparseable value is NaT
ParseTs(ts, unit) == IF ts = None THEN None ELSE Some(ts[1] * UnitPerMs(unit))

NotFuture_Strict(parsed, unit) == parsed[1] < NowMs * UnitPerMs(unit)

\* parsed_ts <= now_utc
NotFuture(parsed, unit) == parsed[1] <= NowMs * UnitPerMs(unit)

\* the index labels that survive "~parsed_ts.isna()" and "parsed_ts <= now_utc"
KeptIdx(rawFile, unit) ==
    {i \in 1..Len(rawFile) :
        /\ ParseTs(rawFile[i].event_timestamp, unit) # None
        /\ NotFuture(ParseTs(rawFile[i].event_timestamp, unit), unit)}

\* (parsed_ts.astype('int64') // divisor)
NormalizeTs(parsed, unit) == parsed[1] \div Divisor(unit)

\* Series.clip(lower=27, upper=42.6): a missing value stays missing
Clip(bt) ==
    IF bt = None THEN None
    ELSE IF bt[1] < TempLower THEN Some(TempLower)
    ELSE IF bt[1] > TempUpper THEN Some(TempUpper)
    ELSE bt

SensorRank(s) == IF s = "A" THEN 1 ELSE 2

\* sort_values(['sensor_id', 'event_timestamp']): stable, so ties keep file order
SortsBefore(rawFile, i, j) ==
    LET a == rawFile[i]
        b == rawFile[j]
    IN  \/ SensorRank(a.sensor_id) < SensorRank(b.sensor_id)
        \/ /\ a.sensor_id = b.sensor_id
           /\ \/ a.event_timestamp[1] < b.event_timestamp[1]
              \/ (a.event_timestamp[1] = b.event_timestamp[1] /\ i < j)

\* the index labels of a set of rows in sorted order
SortedIdx(rawFile, idxs) ==
    [n \in 1..Cardinality(idxs) |->
        CHOOSE i \in idxs : Cardinality({j \in idxs : SortsBefore(rawFile, j, i)}) = n - 1]

\* groupby('sensor_id'): the sorted index labels of one sensor
GroupIdx(rawFile, idxs, sensor) ==
    SortedIdx(rawFile, {i \in idxs : rawFile[i].sensor_id = sensor})

RECURSIVE SumHr(_, _, _)
SumHr(rawFile, g, positions) ==
    IF positions = {} THEN 0
    ELSE LET p == CHOOSE q \in positions : TRUE
         IN  rawFile[g[p]].heart_rate[1] + SumHr(rawFile, g, positions \ {p})

RollingMean_MinTwo(rawFile, g, p) ==
    LET win == {q \in 1..Len(g) : p - Window < q /\ q <= p /\ rawFile[g[q]].heart_rate # None}
    IN  IF Cardinality(win) >= MinPeriods + 1
        THEN Some([num |-> SumHr(rawFile, g, win), den |-> Cardinality(win)])
        ELSE None

RollingMean_ThreeBefore(rawFile, g, p) ==
    LET win == {q \in 1..Len(g) : p - Window <= q /\ q < p /\ rawFile[g[q]].heart_rate # None}
    IN  IF Cardinality(win) >= MinPeriods
        THEN Some([num |-> SumHr(rawFile, g, win), den |-> Cardinality(win)])
        ELSE None

\* x.rolling(window=3, min_periods=1).mean() at position p of group g: the mean of the
\* non-missing values among the 3 rows ending at p, NaN if there are fewer than 1
RollingMean(rawFile, g, p) ==
    LET win == {q \in 1..Len(g) : p - Window < q /\ q <= p /\ rawFile[g[q]].heart_rate # None}
    IN  IF Cardinality(win) >= MinPeriods
        THEN Some([num |-> SumHr(rawFile, g, win), den |-> Cardinality(win)])
        ELSE None

\* x.fillna(rolling mean)
FilledHr(rawFile, g, p) ==
    IF rawFile[g[p]].heart_rate # None
    THEN Some([num |-> rawFile[g[p]].heart_rate[1], den |-> 1])
    ELSE RollingMean(rawFile, g, p)

\* the cleaned row of index label i
CleanRow(rawFile, idxs, i, unit) ==
    LET g == GroupIdx(rawFile, idxs, rawFile[i].sensor_id)
        p == CHOOSE q \in 1..Len(g) : g[q] = i
    IN  [idx |-> i,
         sensor_id |-> rawFile[i].sensor_id,
         event_timestamp |-> NormalizeTs(ParseTs(rawFile[i].event_timestamp, unit), unit),
         body_temperature |-> Clip(rawFile[i].body_temperature),
         heart_rate_imputed |-> (rawFile[i].heart_rate = None),
         heart_rate |-> FilledHr(rawFile, g, p)]

\* the records written to vitals_cleaned.jsonl, in sorted order, rows without a heart
\* rate dropped
CleanRows(rawFile, unit) ==
    LET idxs == KeptIdx(rawFile, unit)
        order == SortedIdx(rawFile, idxs)
        rows == [n \in 1..Len(order) |-> CleanRow(rawFile, idxs, order[n], unit)]
    IN  SelectSeq(rows, LAMBDA r : r.heart_rate # None)

IngestAndCleanData ==
    /\ cleaned = None
    /\ \E unit \in TsUnits : cleaned' = Some(CleanRows(raw, unit))
    /\ UNCHANGED <<raw, file, prevFile, btVars, bqVars, keyVars, scripts>>

CleanInit ==
    /\ raw \in RawFiles
    /\ cleaned = None
    /\ file = <<>>
    /\ BtInit
    /\ bqExists = FALSE /\ bqRows = <<>> /\ bqLoads = 0 /\ bqLast = <<>> /\ bqErased = {}
    /\ keyIn = <<>> /\ keyOut = <<>>
    /\ scripts = <<>>

CleanNext == IngestAndCleanData

SpecClean == CleanInit /\ [][CleanNext]_vars

----------------------------------------------------------------------------
(* The scripts' __main__ blocks: the steps of each run, whether a step calls a remote  *)
(* service (and so can raise a service or credential error), and whether it is inside  *)
(* the script's try/except Exception.                                                  *)

Step(name, remote, inTry) == [name |-> name, remote |-> remote, inTry |-> inTry]

ScriptNames == {"bigquery_load", "bigtable_load", "vertex_pipeline"}

MainSteps(script) ==
    CASE script = "bigquery_load" ->
            << Step("bigquery.Client", TRUE, TRUE),
               Step("ensure_dataset", TRUE, TRUE),
               Step("create_table", TRUE, TRUE),
               Step("_read_jsonl", FALSE, TRUE),
               Step("load_data", TRUE, TRUE) >>
      [] script = "bigtable_load" ->
            << Step("get_client", FALSE, FALSE),
               Step("create_table", TRUE, FALSE),
               Step("load_data", TRUE, FALSE),
               Step("query_patient_vitals", TRUE, FALSE) >>
      [] script = "vertex_pipeline" ->
            << Step("Compiler.compile", FALSE, FALSE),
               Step("aiplatform.PipelineJob", TRUE, TRUE) >>

\* the current step returns normally
ScriptStep(script) ==
    /\ scripts[script].outcome = "running"
    /\ scripts' = [scripts EXCEPT ![script] =
                      IF @.at = Len(MainSteps(script))
                      THEN [at |-> @.at, outcome |-> "done"]
                      ELSE [at |-> @.at + 1, outcome |-> "running"]]
    /\ UNCHANGED <<file, prevFile, btVars, bqVars, keyVars, cleanVars>>

\* the current step raises a remote-service or credential error: caught and reported as
\* a skip with a hint if the step is inside the try block, an uncaught exception otherwise
ScriptFail(script) ==
    /\ scripts[script].outcome = "running"
    /\ MainSteps(script)[scripts[script].at].remote
    /\ scripts' = [scripts EXCEPT ![script].outcome =
                      IF MainSteps(script)[scripts[script].at].inTry
                      THEN "skipped" ELSE "crashed"]
    /\ UNCHANGED <<file, prevFile, btVars, bqVars, keyVars, cleanVars>>

ScriptsInit ==
    /\ scripts = [script \in ScriptNames |-> [at |-> 1, outcome |-> "running"]]
    /\ file = <<>>
    /\ BtInit
    /\ bqExists = FALSE /\ bqRows = <<>> /\ bqLoads = 0 /\ bqLast = <<>> /\ bqErased = {}
    /\ keyIn = <<>> /\ keyOut = <<>>
    /\ raw = <<>> /\ cleaned = <<>>

ScriptsNext ==
    \/ \E script \in ScriptNames : ScriptStep(script)
    \/ \E script \in ScriptNames : ScriptFail(script)

SpecScripts == ScriptsInit /\ [][ScriptsNext]_vars

----------------------------------------------------------------------------
(* Claims *)

\* C1: make_row_key buckets by UTC clock hour: two instants of one sensor in the same
\* hour get the same key, two instants exactly one hour apart get different keys, and
\* the key is the sensor id, '#', and the instant floored to the hour.
C1_HourBucketing ==
    keyOut # <<>> =>
        LET E == keyIn.sensor
            t1 == keyIn.t1
            t2 == keyIn.t2
            k1 == keyOut[1]
            k2 == keyOut[2]
        IN  /\ (t1 \div HourMs = t2 \div HourMs) => k1 = k2
            /\ (t2 = t1 + HourMs) => k1 # k2
            /\ k1[1] = E /\ k1[2] = "#"
            /\ KeyHourStart(k1) = (t1 \div HourMs) * HourMs

C1_Witness ==
    /\ keyOut # <<>>
    /\ keyIn.t2 = keyIn.t1 + HourMs
    /\ keyOut[1] # keyOut[2]
    /\ keyOut[1][3] # keyOut[2][3]

\* the instants of the results of a query
ResultInstants(q) == {DtToMs(q.results[i].timestamp) : i \in 1..Len(q.results)}

\* the instants of the loaded readings of a sensor
LoadedInstants(sensor) == {r.event_timestamp : r \in {x \in loaded : x.sensor_id = sensor}}

\* C2 as stated: a reading of sensor E at instant t is returned iff ref - 1h < t <= ref.
C2_WindowOpenClosed ==
    lastQuery # None =>
        LET q == lastQuery[1]
        IN  \A t \in LoadedInstants(q.sensor) :
                t \in ResultInstants(q) <=> (q.ref - HourMs < t /\ t <= q.ref)

\* C2 amended: for a table populated by load_data, the query for sensor E at ref returns
\* a result at instant t iff E has a loaded reading at t with ref - 1h <= t < ref
\* (a reading at exactly ref - 1h is included, one at exactly ref is excluded).
C2_WindowClosedOpen ==
    lastQuery # None =>
        LET q == lastQuery[1]
        IN  ResultInstants(q) =
                {t \in LoadedInstants(q.sensor) : q.ref - HourMs <= t /\ t < q.ref}

C2_Witness ==
    /\ lastQuery # None
    /\ (lastQuery[1].ref - HourMs) \in ResultInstants(lastQuery[1])
    /\ lastQuery[1].ref \in LoadedInstants(lastQuery[1].sensor)
    /\ lastQuery[1].ref \notin ResultInstants(lastQuery[1])

\* C3: a query reads at most two rows: exactly the bucket of (ref - 1h) and the bucket
\* of ref, each once, and no other row, however many readings are stored.
C3_AtMostTwoReads ==
    lastQuery # None =>
        LET q == lastQuery[1]
        IN  /\ Len(q.reads) <= 2
            /\ Range(q.reads) = {make_row_key(q.sensor, q.ref - HourMs),
                                 make_row_key(q.sensor, q.ref)}
            /\ \A i, j \in 1..Len(q.reads) : i # j => q.reads[i] # q.reads[j]

C3_Witness ==
    /\ lastQuery # None
    /\ Len(lastQuery[1].reads) = 2
    /\ Cardinality(loaded) >= 2
    /\ Len(lastQuery[1].results) >= 2

\* C9: after load_data completes, every loaded reading has, for each of the five
\* attributes, a cell version in its hour row stamped with the reading's own instant
\* and holding the text of the reading's value (also for equal instants of one sensor).
C9_EveryReadingStored ==
    (ldpc = "idle" /\ tableExists) =>
        \A r \in loaded : \A col \in Columns :
            Cell(make_row_key(r.sensor_id, r.event_timestamp), col, r.event_timestamp,
                 StrEncode(ColValue(r, col))) \in cells

\* the cell versions a table holds when it holds exactly the readings of one file:
\* per (sensor, instant) the cells of the last reading of the file with that instant
ExpectedCells(f) ==
    {Cell(make_row_key(f[i].sensor_id, f[i].event_timestamp), col, f[i].event_timestamp,
          StrEncode(ColValue(f[i], col))) :
        i \in {k \in 1..Len(f) : \A j \in (k + 1)..Len(f) :
                  ~(f[j].sensor_id = f[k].sensor_id
                        /\ f[j].event_timestamp = f[k].event_timestamp)},
        col \in Columns}

\* C4: table creation is destructive: once a loader has run create_table and load_data
\* again, its table holds exactly the data of that last run, never a union with what an
\* earlier run loaded (wide-column table and warehouse table alike).
C4_SecondRunOnly ==
    /\ (ldpc = "idle" /\ btLoads = 1) => cells = ExpectedCells(btLast)
    /\ (bqLoads = 1) =>
          /\ Len(bqRows) = Len(bqLast)
          /\ \A i \in 1..Len(bqRows) :
                /\ bqRows[i].sensor_id = bqLast[i].sensor_id
                /\ bqRows[i].heart_rate = bqLast[i].heart_rate
                /\ bqRows[i].event_timestamp.date * DayMs + bqRows[i].event_timestamp.time
                       = bqLast[i].event_timestamp

C4_Witness ==
    /\ ldpc = "idle" /\ btLoads = 1 /\ bqLoads = 1
    /\ btLast # <<>> /\ bqLast # <<>>
    /\ \E r \in erased : r \notin Range(btLast)
    /\ \E r \in bqErased : \A i \in 1..Len(bqRows) : bqRows[i] # r

\* the places (call, position) at which a row key was sent in the mutate_rows calls
SentAt(k) ==
    {p \in {<<c, i>> : c \in 1..Len(mutateCalls), i \in 1..BatchSize} :
        p[2] <= Len(mutateCalls[p[1]]) /\ mutateCalls[p[1]][p[2]] = k}

\* C10: when load_data has returned, every distinct row key derived from the input
\* records is contained in exactly one mutate_rows call, once (none skipped, none sent
\* twice, the rows of the final partial batch included), and no other key was sent.
C10_EachRowMutatedOnce ==
    (ldpc = "idle" /\ loadRet # None) =>
        LET keys == {make_row_key(r.sensor_id, r.event_timestamp) : r \in Range(btLast)}
        IN  /\ \A k \in keys : Cardinality(SentAt(k)) = 1
            /\ \A c \in 1..Len(mutateCalls) : Range(mutateCalls[c]) \subseteq keys

C10_Witness ==
    /\ ldpc = "idle" /\ loadRet # None
    /\ Len(mutateCalls) >= 3
    /\ Len(mutateCalls[Len(mutateCalls)]) < BatchSize
    /\ loadRet[1].events > loadRet[1].rows

\* raw records whose timestamp parses and is not in the future
ValidTs(i) == raw[i].event_timestamp # None /\ raw[i].event_timestamp[1] <= NowMs

ValidIdx == {i \in 1..Len(raw) : ValidTs(i)}

\* the cleaned output has a record for raw record i, carrying its instant in epoch ms
InOutput(i) ==
    \E n \in 1..Len(cleaned[1]) :
        /\ cleaned[1][n].idx = i
        /\ cleaned[1][n].sensor_id = raw[i].sensor_id
        /\ cleaned[1][n].event_timestamp = raw[i].event_timestamp[1]

OutputOf(i) == cleaned[1][CHOOSE n \in 1..Len(cleaned[1]) : cleaned[1][n].idx = i]

\* the valid records of the sensor of record i in time order, and i's position there
SensorSeq(i) == GroupIdx(raw, ValidIdx, raw[i].sensor_id)
PosOf(i) == CHOOSE p \in 1..Len(SensorSeq(i)) : SensorSeq(i)[p] = i

\* the observed heart rates among the (up to) n records before record i in its sensor's sequence
ObservedBefore(i, n) ==
    {q \in 1..Len(SensorSeq(i)) :
        /\ PosOf(i) - n <= q /\ q < PosOf(i)
        /\ raw[SensorSeq(i)[q]].heart_rate # None}

MeanIs(hr, i, positions) ==
    hr # None /\ hr[1].num * Cardinality(positions) = SumHr(raw, SensorSeq(i), positions) * hr[1].den

\* C5 as stated: every raw record with a parseable, non-future timestamp has a
\* corresponding cleaned record with its timestamp in epoch milliseconds.
C5_NoValidRecordMissing ==
    cleaned # None => \A i \in ValidIdx : InOutput(i)

\* C5 amended: a raw record has a corresponding cleaned record (timestamp in epoch ms)
\* if and only if its timestamp parses and is not in the future and its heart rate is
\* observed or one of the two records before it in its sensor's time order has an
\* observed heart rate; a valid record whose heart rate stays unfilled is dropped.
C5_ValidAndFilledKept ==
    cleaned # None =>
        /\ \A i \in 1..Len(raw) :
              InOutput(i) <=>
                  (ValidTs(i) /\ (raw[i].heart_rate # None \/ ObservedBefore(i, 2) # {}))
        /\ \A n \in 1..Len(cleaned[1]) : cleaned[1][n].idx \in 1..Len(raw)

C5_Witness ==
    /\ cleaned # None
    /\ \E i \in ValidIdx : raw[i].heart_rate = None /\ InOutput(i)
    /\ \E i \in ValidIdx : ~InOutput(i)
    /\ \E i \in ValidIdx : raw[i].event_timestamp[1] = NowMs /\ InOutput(i)

\* C6 as stated, for the records that reach the output: a valid record at position
\* i > 0 of its sensor's time order with a missing raw heart rate has as its heart rate
\* the mean of the heart rates of the up to 3 preceding records (itself excluded), and
\* is flagged imputed.
C6_MeanOfThreeBefore ==
    cleaned # None =>
        \A i \in ValidIdx :
            (raw[i].heart_rate = None /\ PosOf(i) > 1 /\ InOutput(i)) =>
                /\ MeanIs(OutputOf(i).heart_rate, i, ObservedBefore(i, 3))
                /\ OutputOf(i).heart_rate_imputed

\* C6 amended: a valid record at position i > 0 of its sensor's time order with a missing
\* raw heart rate gets the mean of the observed heart rates among the up to 2 preceding
\* records (the 3-row window counts the record itself), and is flagged imputed; when
\* neither of the two has an observed heart rate the record is dropped.
C6_MeanOfTwoBefore ==
    cleaned # None =>
        \A i \in ValidIdx :
            (raw[i].heart_rate = None /\ PosOf(i) > 1) =>
                IF ObservedBefore(i, 2) # {}
                THEN /\ InOutput(i)
                     /\ MeanIs(OutputOf(i).heart_rate, i, ObservedBefore(i, 2))
                     /\ OutputOf(i).heart_rate_imputed
                ELSE ~InOutput(i)

C6_Witness ==
    /\ cleaned # None
    /\ \E i \in ValidIdx :
          /\ raw[i].heart_rate = None
          /\ PosOf(i) = 4
          /\ Cardinality(ObservedBefore(i, 3)) = 3
          /\ InOutput(i)
          /\ ~MeanIs(OutputOf(i).heart_rate, i, ObservedBefore(i, 3))

\* C7: every cleaned record has a body_temperature within [27, 42.6], whatever the raw
\* value was (below the range, above it, or absent).
C7_TemperatureInRange ==
    cleaned # None =>
        \A n \in 1..Len(cleaned[1]) :
            /\ cleaned[1][n].body_temperature # None
            /\ TempLower <= cleaned[1][n].body_temperature[1]
            /\ cleaned[1][n].body_temperature[1] <= TempUpper

\* C8: in the warehouse loader, the wide-column loader and the pipeline script, a
\* remote-service or credential failure at any step is caught at the top level and
\* reported as a skip; no script ends with an uncaught exception because of one.
C8_FailuresReportedAsSkip ==
    \A script \in ScriptNames : scripts[script].outcome # "crashed"

\* C11: every mutate_rows call of load_data carries at least 1 and at most 50 rows, the
\* pending batch never exceeds 50 rows (between two iterations it holds fewer than 50,
\* so the row appended next makes it at most 50), and no call is issued with an empty
\* batch, for an empty input as well.
C11_BatchWithinLimit ==
    /\ \A c \in 1..Len(mutateCalls) :
          1 <= Len(mutateCalls[c]) /\ Len(mutateCalls[c]) <= BatchSize
    /\ Len(batch) + 1 <= BatchSize
    /\ (ldpc = "idle" /\ loadRet # None /\ btLast = <<>>) => mutateCalls = <<>>

C11_Witness ==
    /\ ldpc = "loop"
    /\ Len(mutateCalls) = 1
    /\ Len(mutateCalls[1]) = BatchSize
    /\ Len(batch) = BatchSize - 1

\* record i has an earlier record of its sensor (in time order) with an observed heart rate
ObservedEarlier(i) == ObservedBefore(i, PosOf(i)) # {}

\* C12 as stated: a record with a missing raw heart rate that has at least one earlier
\* same-sensor record with an observed heart rate is never dropped, whatever the pattern
\* of missing values between them.
C12_OnlyLeadingNullsDropped ==
    cleaned # None =>
        \A i \in ValidIdx :
            (raw[i].heart_rate = None /\ ObservedEarlier(i)) => InOutput(i)

\* C12 amended: a record with a missing raw heart rate is dropped exactly when neither of
\* the up to two same-sensor records immediately before it in time order has an observed
\* heart rate: leading nulls are dropped, and so is the third and every later record of a
\* run of missing values; with an observed heart rate among those two it is never dropped.
C12_DroppedIffNoneInWindow ==
    cleaned # None =>
        \A i \in ValidIdx :
            raw[i].heart_rate = None => (InOutput(i) <=> ObservedBefore(i, 2) # {})

C12_Witness ==
    /\ cleaned # None
    /\ \E i \in ValidIdx :
          /\ raw[i].heart_rate = None
          /\ ObservedEarlier(i)
          /\ ~InOutput(i)
    /\ \E i \in ValidIdx :
          /\ raw[i].heart_rate = None
          /\ PosOf(i) = 3
          /\ Cardinality(ObservedBefore(i, 2)) = 1
          /\ InOutput(i)

\* the versions of one vitals column of row rk stamped within [ref - 1h, ref)
WindowVersions(rk, column, ref) ==
    {c \in cells : /\ c.row = rk /\ c.family = CF_VITALS /\ c.column = column
                   /\ ref - HourMs <= c.ts /\ c.ts < ref}

\* the positions of the results of a query that stem from row rk
ResultsOfRow(q, rk) ==
    {i \in 1..Len(q.results) : FormatKey(q.sensor, q.results[i].timestamp) = rk}

\* C13: for a table written only by load_data, every result of query_patient_vitals
\* pairs values of one reading: its heart_rate, body_temperature and spO2 are the values
\* of the cell versions stamped with the result's timestamp (those of one loaded reading
\* of the sensor at that instant), each row read yields as many results as it has
\* heart_rate versions in the window, and body_temperature or spO2 is None only when
\* that attribute has fewer versions in the window than heart_rate.
C13_ResultsPairOneReading ==
    lastQuery # None =>
        LET q == lastQuery[1]
            at(rk, column, t) == {c \in WindowVersions(rk, column, q.ref) : c.ts = t}
            fewer(rk, column) ==
                Cardinality(WindowVersions(rk, column, q.ref))
                    < Cardinality(WindowVersions(rk, "heart_rate", q.ref))
        IN  /\ \A rk \in Range(q.reads) :
                  Cardinality(ResultsOfRow(q, rk))
                      = Cardinality(WindowVersions(rk, "heart_rate", q.ref))
            /\ \A i \in 1..Len(q.results) :
                  LET res == q.results[i]
                      t == DtToMs(res.timestamp)
                      rk == FormatKey(q.sensor, res.timestamp)
                  IN  /\ rk \in Range(q.reads)
                      /\ \E c \in at(rk, "heart_rate", t) : res.heart_rate = ParseFloat(c.value)
                      /\ IF res.body_temperature = None
                         THEN fewer(rk, "body_temperature")
                         ELSE \E c \in at(rk, "body_temperature", t) :
                                  res.body_temperature = ParseFloat(c.value)
                      /\ IF res.spO2 = None
                         THEN fewer(rk, "spO2")
                         ELSE \E c \in at(rk, "spO2", t) : res.spO2 = ParseInt(c.value)
                      /\ \E r \in loaded :
                            /\ r.sensor_id = q.sensor
                            /\ r.event_timestamp = t
                            /\ res.heart_rate = Some(r.heart_rate)
                            /\ res.body_temperature = Some(r.body_temperature)
                            /\ res.spO2 = Some(r.spO2)

C13_Witness ==
    /\ lastQuery # None
    /\ \E rk \in Range(lastQuery[1].reads) :
          \E i, j \in ResultsOfRow(lastQuery[1], rk) :
              /\ i # j
              /\ lastQuery[1].results[i].body_temperature
                     # lastQuery[1].results[j].body_temperature
              /\ lastQuery[1].results[i].spO2 # lastQuery[1].results[j].spO2

====
